---- MODULE Spec2Model ----
(***************************************************************************)
(* Model of mini-idp: the deploy / delete commands of the CLI              *)
(* (cli/commands/deploy.py, cli/commands/delete.py) and the deployment     *)
(* endpoints of the API (api/routers/deployments.py), run against one      *)
(* application name in one namespace of a cluster.                         *)
(*                                                                         *)
(* Every command is a synchronous, single-threaded run, so each operation  *)
(* is one action.  What a run did is kept in the invocation record: the    *)
(* cluster calls it issued (calls), the lines it echoed (report), how it   *)
(* ended (outcome) and the cluster it started from (before).               *)
(***************************************************************************)
EXTENDS Integers, Sequences, FiniteSets, TLC

VARIABLES
    cluster,    \* [Kinds -> 0..MaxRev]: revision of the live object, 0 = absent
    depLabel,   \* value of the "type" label of the live Deployment
    op,         \* the operation that ran ("none" before any)
    args,       \* its arguments
    resources,  \* the resource documents handed to the applier
    calls,      \* cluster calls issued, in order: [api, kind, pos]
    attempted,  \* documents handed to _apply_single_resource, in order
    failed,     \* positions of the documents whose application raised
    gitops,     \* the registration: "none" (not run), "ok" or "failed"
    report,     \* lines echoed per document: [kind, action, pos]
    outcome,    \* how the operation ended
    warnings,   \* non-fatal warnings echoed
    client,     \* TRUE once a K8sClient was constructed
    policy,     \* autoscaling policy handed to the assembler: <<>> or <<p>>
    before,     \* the cluster when the operation started
    labelBefore, \* the "type" label of the Deployment at that time
    error,      \* the exception the operation raised or echoed ("none" if none)
    delType,    \* the application type the delete command settled on
    rendered,   \* the template handed to the renderer: <<>> if none was
    watch,      \* the run of "status --watch": its position and history
    listed,     \* the entries the list command put out, in order
    templates   \* the template directory and the last call on it

vars == <<cluster, depLabel, op, args, resources, calls, attempted, failed,
          gitops, report, outcome, warnings, client, policy, before,
          labelBefore, error, delType, rendered,
          watch, listed, templates>>

----------------------------------------------------------------------------
(* Bounds *)

MaxDocs == 3        \* longest resource list given to the applier
MaxRev == 2         \* document revisions 1..MaxRev
MaxLive == 1        \* objects already live when the operation starts
MaxReplicas == 12   \* largest replica count given to the defaults calculator
MaxNeg == 3         \* the calculator's integers start at -MaxNeg
MaxIn == 2          \* replica counts 0..MaxIn given to deploy
MaxPolls == 3       \* polls of one status watch
MaxApps == 2        \* Deployments the cluster lists
MaxJobs == 1        \* Jobs the cluster lists
MaxContent == 1     \* characters of a template's content

None == "None"          \* Python's None where the other values are strings
NoArgs == [none |-> TRUE]

\* Optional[int]: <<>> is None, <<v>> is the integer v
Absent == <<>>
Given(v) == <<v>>
IsNone(x) == x = <<>>
Val(x) == x[1]
Opt(S) == {Absent} \cup {Given(v) : v \in S}
Max(a, b) == IF a >= b THEN a ELSE b

----------------------------------------------------------------------------
(* The cluster *)

Kinds == {"Deployment", "Service", "Job", "CronJob", "HorizontalPodAutoscaler",
          "ServiceMonitor", "ExternalSecret", "Application"}

\* kinds a resource list is drawn from (Application is built by the registrar)
DocKinds == {"Deployment", "Service", "Job", "HorizontalPodAutoscaler",
             "ServiceMonitor", "ExternalSecret"}

\* values of the "type" label of a live Deployment ("missing": no label)
LabelValues == {"service", "worker", "job", "other", "", "missing"}
DocLabels == {"service", "worker"}

Doc(kind, rev, label) ==
    [kind |-> kind, rev |-> rev,
     label |-> IF kind = "Deployment" THEN label ELSE "missing"]

St(c, l) == [cluster |-> c, label |-> l]

\* state after the object described by d is written (created or replaced)
Written(st, d) ==
    [cluster |-> [st.cluster EXCEPT ![d.kind] = d.rev],
     label |-> IF d.kind = "Deployment" THEN d.label ELSE st.label]

Removed(st, kind) ==
    [cluster |-> [st.cluster EXCEPT ![kind] = 0],
     label |-> IF kind = "Deployment" THEN "missing" ELSE st.label]

Call(api, kind, pos) == [api |-> api, kind |-> kind, pos |-> pos]
Line(kind, action, pos) == [kind |-> kind, action |-> action, pos |-> pos]

----------------------------------------------------------------------------
(* kubernetes.utils.create_from_yaml, as called by the typed handlers:     *)
(* it submits the document to the cluster (a create) and raises when the   *)
(* create is refused, which the cluster does for an object that exists.    *)
(* Any other failure of the call (the library refusing its argument, the   *)
(* cluster being unreachable) is the fault "yaml" of FaultFor.  Whether    *)
(* the object it returns passes the isinstance test of the handler is      *)
(* left open (typed).                                                      *)
CreateFromYaml(st, d) ==
    IF st.cluster[d.kind] # 0
    THEN [raised |-> TRUE, st |-> st]
    ELSE [raised |-> FALSE, st |-> Written(st, d)]

(* K8sClient.apply_*: create, and on "already exists" a full replace.       *)
ClientApply(st, d) ==
    [action |-> IF st.cluster[d.kind] = 0 THEN "created" ELSE "updated",
     st |-> Written(st, d)]

(* K8sClient.delete_* and the raw delete calls: the cluster's answer.       *)
DeleteAnswer(st, kind) == IF st.cluster[kind] = 0 THEN 404 ELSE 200

----------------------------------------------------------------------------
(* _apply_single_resource and its handlers *)

HandlerKinds == {"Deployment", "Service", "Job", "CronJob",
                 "HorizontalPodAutoscaler", "ServiceMonitor"}

\* handlers that test isinstance(objs[0], V1...) before calling the client
TypedKinds == {"Deployment", "Service", "Job", "CronJob"}

\* handlers that go through create_from_yaml first
YamlKinds == TypedKinds \cup {"HorizontalPodAutoscaler"}

\* the injected fault of call number failAt: calls 2*pos-1 and 2*pos belong
\* to the document at pos (create_from_yaml, then the client's apply)
FaultFor(pos, failAt) ==
    IF failAt = 2 * pos - 1 THEN "yaml"
    ELSE IF failAt = 2 * pos THEN "apply" ELSE "none"

\* click_obj.echo(...): with click_obj = None the attribute lookup raises
EchoRaises(clickObj) == clickObj = None

\* result of one handler run: raised = an exception left the handler,
\* injected = it was a failure of the cluster call itself
Res(st, cs, ls, raised, injected) ==
    [st |-> st, calls |-> cs, report |-> ls, raised |-> raised,
     injected |-> injected]

\* client.apply_*(obj) followed by the echo of the action taken
ApplyAndEcho(st, d, pos, clickObj, fault, cs) ==
    LET cs2 == Append(cs, Call("apply", d.kind, pos)) IN
    IF fault = "apply"
    THEN Res(st, cs2, <<>>, TRUE, TRUE)
    ELSE LET a == ClientApply(st, d) IN
         IF EchoRaises(clickObj)
         THEN Res(a.st, cs2, <<>>, TRUE, FALSE)
         ELSE Res(a.st, cs2, <<Line(d.kind, a.action, pos)>>, FALSE, FALSE)

\* _apply_deployment_resource, _apply_service_resource, _apply_job_resource,
\* _apply_cronjob_resource, _apply_hpa_resource
ApplyYamlResource(st, d, pos, clickObj, typed, fault) ==
    LET cs == <<Call("create_from_yaml", d.kind, pos)>> IN
    IF fault = "yaml"
    THEN Res(st, cs, <<>>, TRUE, TRUE)
    ELSE LET y == CreateFromYaml(st, d) IN
         IF y.raised
         THEN Res(st, cs, <<>>, TRUE, FALSE)
         ELSE IF d.kind \in TypedKinds /\ ~typed
              THEN Res(y.st, cs, <<>>, FALSE, FALSE)
              ELSE ApplyAndEcho(y.st, d, pos, clickObj, fault, cs)

\* the else branch of _apply_single_resource: a warning, no cluster call
SkipUnsupported(st, d, pos, clickObj) ==
    IF EchoRaises(clickObj)
    THEN Res(st, <<>>, <<>>, TRUE, FALSE)
    ELSE Res(st, <<>>, <<Line(d.kind, "skipped", pos)>>, FALSE, FALSE)

ApplySingleResource(st, d, pos, clickObj, typed, fault) ==
    IF d.kind \in HandlerKinds
    THEN IF d.kind \in YamlKinds
         THEN ApplyYamlResource(st, d, pos, clickObj, typed, fault)
         ELSE ApplyAndEcho(st, d, pos, clickObj, fault, <<>>)
    ELSE SkipUnsupported(st, d, pos, clickObj)

----------------------------------------------------------------------------
(* _apply_resources *)

\* the order of the handler table of _apply_single_resource
KindRank(kind) ==
    CASE kind = "Deployment" -> 1
      [] kind = "Service" -> 2
      [] kind = "Job" -> 3
      [] kind = "CronJob" -> 4
      [] kind = "HorizontalPodAutoscaler" -> 5
      [] kind = "ServiceMonitor" -> 6
      [] OTHER -> 7

RankPos(docs, i) ==
    1 + Cardinality({j \in DOMAIN docs :
                        KindRank(docs[j].kind) < KindRank(docs[i].kind)})

\* variant: the documents sorted into the order of the handler table
IterationOrderByKind(docs) ==
    [p \in DOMAIN docs |->
        docs[CHOOSE i \in DOMAIN docs : RankPos(docs, i) = p]]

\* "for resource in resources": the documents are taken in list order
IterationOrder(docs) == docs

\* variant: the exception is echoed and the loop goes on
AbortsLoopNever(r) == FALSE

\* the except clause ends with a bare raise: the loop is left
AbortsLoop(r) == r.raised

\* the except clause echoes the failure before re-raising
FailureLine(d, pos, clickObj) ==
    IF EchoRaises(clickObj) THEN <<>> ELSE <<Line(d.kind, "failed", pos)>>

Run(st, cs, ds, ls, raised, injected) ==
    [st |-> st, calls |-> cs, attempted |-> ds, report |-> ls,
     raised |-> raised, injected |-> injected, failed |-> {}]

RECURSIVE ApplyFrom(_, _, _, _, _, _)
ApplyFrom(acc, docs, pos, clickObj, typed, failAt) ==
    IF pos > Len(docs) THEN acc
    ELSE LET d == docs[pos]
             r == ApplySingleResource(acc.st, d, pos, clickObj, typed,
                                      FaultFor(pos, failAt))
             ls == IF r.raised THEN FailureLine(d, pos, clickObj)
                   ELSE r.report
             next == [Run(r.st, acc.calls \o r.calls,
                          Append(acc.attempted, d), acc.report \o ls,
                          acc.raised \/ r.raised,
                          acc.injected \/ r.injected)
                      EXCEPT !.failed = IF r.raised THEN acc.failed \cup {pos}
                                        ELSE acc.failed]
         IN  IF AbortsLoop(r) THEN next
             ELSE ApplyFrom(next, docs, pos + 1, clickObj, typed, failAt)

\* variant: the live objects no document describes are removed first
ApplyResourcesPruning(st, docs, clickObj, typed, failAt) ==
    LET described(k) == \E i \in DOMAIN docs : docs[i].kind = k
        pruned == St([k \in Kinds |->
                         IF described(k) THEN st.cluster[k] ELSE 0],
                     IF described("Deployment") THEN st.label ELSE "missing")
    IN  ApplyFrom(Run(pruned, <<>>, <<>>, <<>>, FALSE, FALSE),
                  IterationOrder(docs), 1, clickObj, typed, failAt)

\* _apply_resources(client, resources, name, namespace, click_obj)
ApplyResources(st, docs, clickObj, typed, failAt) ==
    ApplyFrom(Run(st, <<>>, <<>>, <<>>, FALSE, FALSE), IterationOrder(docs),
              1, clickObj, typed, failAt)

----------------------------------------------------------------------------
(* Keyword binding of the calls between the modules *)

\* a call with keyword arguments binds iff every keyword is a parameter of
\* the callee and every parameter without a default is given
Binds(kwargs, params, required) ==
    kwargs \subseteq params /\ required \subseteq kwargs

\* def _build_resources(...)
BuildResourcesParams ==
    {"template_builder", "type", "name", "image", "namespace", "port",
     "replicas", "template", "env", "secret", "autoscaling", "min_replicas",
     "max_replicas", "cpu_target", "memory_target", "metrics"}

\* def _build_and_validate_resources(...)
BuildAndValidateParams ==
    {"config", "type", "name", "image", "namespace", "port", "replicas",
     "template", "env", "secret", "autoscaling", "min_replicas",
     "max_replicas", "cpu_target", "memory_target", "metrics", "logging",
     "logging_environment"}

BuildAndValidateRequired ==
    BuildAndValidateParams \ {"logging", "logging_environment"}

\* the keywords _build_and_validate_resources passes to _build_resources
InnerBuildKwargs ==
    (BuildAndValidateParams \ {"config"}) \cup {"template_builder"}

\* the keywords deploy passes to _build_and_validate_resources
CliBuildKwargs == BuildAndValidateParams

\* the keywords create_deployment passes to _build_and_validate_resources
ApiBuildKwargs ==
    BuildAndValidateParams \cup
        {"metrics_path", "metrics_port", "metrics_interval", "external_secret",
         "secret_store", "secret_refresh_interval"}

\* def _deploy_gitops(...)
DeployGitopsParams ==
    {"name", "namespace", "git_repo", "git_path", "config", "client",
     "click_obj"}

\* the keywords _deploy_to_cluster passes to _deploy_gitops
CliGitopsKwargs == DeployGitopsParams

\* the keywords create_deployment passes to _deploy_gitops
ApiGitopsKwargs ==
    DeployGitopsParams \cup
        {"git_branch", "argocd_project", "argocd_namespace", "auto_sync",
         "prune", "self_heal"}

----------------------------------------------------------------------------
(* _deploy_gitops: the GitOps registrar *)

\* variant: "if git_repo is None"
MissingRepoNoneOnly(gitRepo) == gitRepo = None

\* "if not git_repo": None and the empty string are both refused
MissingRepo(gitRepo) == gitRepo \in {None, ""}

\* the exceptions of the applier, the registrar and the delete calls, by
\* what they say
UnexpectedKeyword == "TypeError: got an unexpected keyword argument"
RepoRequired == "git_repo is required for GitOps deployment"
ClusterError == "ApiException"
ApplyFailed == "exception of _apply_resources"
EchoOnNone == "AttributeError: 'NoneType' object has no attribute 'echo'"

DeployGitops(st, kwargs, gitRepo, rev, clickObj, gfault) ==
    IF ~Binds(kwargs, DeployGitopsParams, DeployGitopsParams)
    THEN Res(st, <<>>, <<>>, TRUE, FALSE)
    ELSE IF MissingRepo(gitRepo)
    THEN Res(st, <<>>, <<>>, TRUE, FALSE)
    ELSE ApplyAndEcho(st, Doc("Application", rev, "missing"), 0, clickObj,
                      IF gfault THEN "apply" ELSE "none", <<>>)

\* the exception that left _deploy_gitops, run with the result g
GitopsError(kwargs, gitRepo, g) ==
    IF ~g.raised THEN "none"
    ELSE IF ~Binds(kwargs, DeployGitopsParams, DeployGitopsParams)
    THEN UnexpectedKeyword
    ELSE IF MissingRepo(gitRepo) THEN RepoRequired
    ELSE IF g.injected THEN ClusterError
    ELSE EchoOnNone

----------------------------------------------------------------------------
(* _deploy_to_cluster: apply, then the optional registration *)

Done(r, out, warn, cl) ==
    [st |-> r.st, calls |-> r.calls, attempted |-> r.attempted,
     failed |-> r.failed, gitops |-> "none", report |-> r.report,
     outcome |-> out, warnings |-> warn, client |-> cl, error |-> "none",
     delType |-> None, rendered |-> <<>>]

Registered(g) == IF g.raised THEN "failed" ELSE "ok"

\* an exception of the registrar is caught and echoed as a warning
GitopsFailure(g) == IF g.raised THEN {"gitops"} ELSE {}

DeployToCluster(st, docs, a, typed, failAt, gfault) ==
    LET r == ApplyResources(st, docs, "click", typed, failAt) IN
    IF r.raised
    THEN [Done(r, "exit1", {}, TRUE) EXCEPT !.error = ApplyFailed]
    ELSE IF a.gitops
    THEN LET g == DeployGitops(r.st, CliGitopsKwargs, a.git_repo, a.rev,
                               "click", gfault)
             rg == [r EXCEPT !.st = g.st, !.calls = r.calls \o g.calls,
                             !.report = r.report \o g.report]
         IN  [Done(rg, "ok", GitopsFailure(g), TRUE)
                 EXCEPT !.gitops = Registered(g),
                        !.error = GitopsError(CliGitopsKwargs, a.git_repo, g)]
    ELSE Done(r, "ok", {}, TRUE)

----------------------------------------------------------------------------
(* create_deployment, from "Apply resources to cluster" on *)

\* the inner try: any exception, the HTTPException(400) of the missing
\* git_repo included, becomes HTTPException(500)
ApiApplyPhase(st, docs, a, typed, failAt, gfault) ==
    LET r == ApplyResources(st, docs, None, typed, failAt) IN
    IF r.raised
    THEN [Done(r, "http500", {}, TRUE) EXCEPT !.error = ApplyFailed]
    ELSE IF a.gitops
    THEN IF MissingRepo(a.git_repo)
         THEN [Done(r, "http500", {}, TRUE)
                  EXCEPT !.gitops = "failed", !.error = RepoRequired]
         ELSE LET g == DeployGitops(r.st, ApiGitopsKwargs, a.git_repo, a.rev,
                                    None, gfault)
                  rg == [r EXCEPT !.st = g.st, !.calls = r.calls \o g.calls,
                                  !.report = r.report \o g.report]
              IN  [Done(rg, IF g.raised THEN "http500" ELSE "http201", {},
                        TRUE)
                      EXCEPT !.gitops = Registered(g),
                             !.error = GitopsError(ApiGitopsKwargs,
                                                   a.git_repo, g)]
    ELSE Done(r, "http201", {}, TRUE)

----------------------------------------------------------------------------
(* The defaults calculator *)

\* variant: half of the replicas, rounded up
DefaultMinHalfUp(replicas) ==
    IF replicas > 1 THEN Max(1, (replicas + 1) \div 2) ELSE 1

\* calculated_min when min_replicas is None; // is the floor division, as
\* is \div
DefaultMin(replicas) ==
    IF replicas > 1 THEN Max(1, replicas \div 2) ELSE 1

\* variant: the multiplier of the service for every type
DefaultMaxServiceOnly(type, replicas) == Max(10, replicas * 3)

\* calculated_max when max_replicas is None
DefaultMax(type, replicas) ==
    LET multiplier == IF type = "service" THEN 3 ELSE 2
    IN  Max(10, replicas * multiplier)

\* variant: the repair lowers the minimum to the maximum
RepairLowersMin(calculatedMin, calculatedMax) ==
    IF calculatedMin > calculatedMax
    THEN [min |-> calculatedMax, max |-> calculatedMax]
    ELSE [min |-> calculatedMin, max |-> calculatedMax]

\* "Ensure min <= max": if calculated_min > calculated_max, the maximum
\* becomes calculated_min * 2
Repair(calculatedMin, calculatedMax) ==
    [min |-> calculatedMin,
     max |-> IF calculatedMin > calculatedMax THEN calculatedMin * 2
             ELSE calculatedMax]

\* _calculate_hpa_defaults(type, replicas, min_replicas, max_replicas)
CalculateHpaDefaults(type, replicas, minR, maxR) ==
    LET calculatedMin ==
            IF ~IsNone(minR) THEN Val(minR) ELSE DefaultMin(replicas)
        calculatedMax ==
            IF ~IsNone(maxR) THEN Val(maxR) ELSE DefaultMax(type, replicas)
    IN  Repair(calculatedMin, calculatedMax)

\* variant: the two targets exchanged
CpuTargetDefaultSwapped(type) == IF type = "worker" THEN 70 ELSE 60

\* _get_cpu_target_default(type)
CpuTargetDefault(type) == IF type = "worker" THEN 60 ELSE 70

\* variant: the calculator is used whatever the flag and the type
CalculatorInvokedAlways(a) == TRUE

\* "if autoscaling and type != 'job'": the branch that calls
\* _calculate_hpa_defaults and _get_cpu_target_default
CalculatorInvoked(a) == a.autoscaling /\ a.type # "job"

\* deploy / create_deployment: "Calculate automatic HPA defaults";
\* calc records whether the calculator was called
FinalPolicy(a) ==
    IF CalculatorInvoked(a)
    THEN LET c == CalculateHpaDefaults(a.type, a.replicas, a.min_replicas,
                                       a.max_replicas)
         IN  [min |-> IF ~IsNone(a.min_replicas) THEN Val(a.min_replicas)
                      ELSE c.min,
              max |-> IF ~IsNone(a.max_replicas) THEN Val(a.max_replicas)
                      ELSE c.max,
              cpu |-> IF ~IsNone(a.cpu_target) THEN Val(a.cpu_target)
                      ELSE CpuTargetDefault(a.type),
              calc |-> TRUE]
    ELSE [min |-> IF ~IsNone(a.min_replicas) THEN Val(a.min_replicas) ELSE 1,
          max |-> IF ~IsNone(a.max_replicas) THEN Val(a.max_replicas) ELSE 10,
          cpu |-> IF ~IsNone(a.cpu_target) THEN Val(a.cpu_target) ELSE 70,
          calc |-> FALSE]

----------------------------------------------------------------------------
(* Validation and assembly *)

\* "not port": None and 0 are both falsy
PortMissing(port) == IsNone(port) \/ Val(port) = 0

\* variant: "port is None" instead of "not port"
ValidatePortIsNone(type, port) == ~(type = "service" /\ IsNone(port))

\* _validate_deploy_options, and the first check of create_deployment
ValidateDeployOptions(type, port) == ~(type = "service" /\ PortMissing(port))

KnownTypes == {"service", "job", "worker"}

\* TemplateBuilder.build_service / build_job / build_worker
Assemble(type, a) ==
    LET workload == IF type = "job" THEN <<"Job">> ELSE <<"Deployment">>
        service == IF type = "service" THEN <<"Service">> ELSE <<>>
        hpa == IF type # "job" /\ a.autoscaling
               THEN <<"HorizontalPodAutoscaler">> ELSE <<>>
        monitor == IF type # "job" /\ a.metrics
                   THEN <<"ServiceMonitor">> ELSE <<>>
        ks == workload \o service \o hpa \o monitor
    IN  [i \in DOMAIN ks |-> Doc(ks[i], a.rev, type)]

\* the keywords _build_resources passes to build_service, build_job and
\* build_worker
BuilderKwargs(type) ==
    LET common == {"name", "image", "namespace", "env", "secret",
                   "logging_enabled", "logging_environment"}
        scaling == {"replicas", "autoscaling", "min_replicas", "max_replicas",
                    "cpu_target", "memory_target", "metrics"}
    IN  IF type = "job" THEN common
        ELSE IF type = "service" THEN common \cup scaling \cup {"port"}
        ELSE common \cup scaling

\* the template the builder renders: the one it is given, and without one
\* the default of the type
TemplateHanded(type, a) ==
    IF "template" \in BuilderKwargs(type) /\ a.template # None
    THEN <<"override", a.template>>
    ELSE <<"default", type>>

\* names that _build_resources reads and that are neither parameters nor
\* module globals of cli/commands/deploy.py
BuildResourcesUnboundNames == {"logging", "logging_environment"}

\* the exceptions of the build step, by what they say
UnknownType == "ValueError: Unknown type"
UnboundName == "NameError: name 'logging' is not defined"
\* _build_resources: the keyword arguments of the builder call are evaluated
\* first, and an unbound name among them raises NameError; an unknown type
\* raises ValueError
BuildResources(type, a) ==
    IF type \in KnownTypes
    THEN IF BuildResourcesUnboundNames # {}
         THEN [raised |-> TRUE, docs |-> <<>>, error |-> UnboundName,
               rendered |-> <<>>]
         ELSE [raised |-> FALSE, docs |-> Assemble(type, a), error |-> "none",
               rendered |-> TemplateHanded(type, a)]
    ELSE [raised |-> TRUE, docs |-> <<>>, error |-> UnknownType,
          rendered |-> <<>>]

\* _build_and_validate_resources called with the keywords kwargs:
\*   "TypeError"  the call itself does not bind
\*   "SystemExit" the builder raised: the error is echoed and sys.exit(1)
\* error is the exception raised (TypeError) or echoed (SystemExit)
BuildAndValidateResources(kwargs, a) ==
    IF ~Binds(kwargs, BuildAndValidateParams, BuildAndValidateRequired)
    THEN [status |-> "TypeError", docs |-> <<>>, error |-> UnexpectedKeyword,
          rendered |-> <<>>]
    ELSE IF ~Binds(InnerBuildKwargs, BuildResourcesParams, BuildResourcesParams)
    THEN [status |-> "SystemExit", docs |-> <<>>, error |-> UnexpectedKeyword,
          rendered |-> <<>>]
    ELSE LET b == BuildResources(a.type, a) IN
         IF b.raised
         THEN [status |-> "SystemExit", docs |-> <<>>, error |-> b.error,
               rendered |-> <<>>]
         ELSE [status |-> "ok", docs |-> b.docs, error |-> "none",
               rendered |-> b.rendered]

\* _display_dry_run: one line per document, no cluster call
DisplayDryRun(docs) ==
    [i \in DOMAIN docs |-> Line(docs[i].kind, "would_deploy", i)]

\* click.UsageError / HTTPException(400) of the port validation
PortRequired == "port is required for service"

Stopped(st, out, docs, ls) ==
    [st |-> st, calls |-> <<>>, attempted |-> <<>>, failed |-> {},
     gitops |-> "none", report |-> ls, outcome |-> out, warnings |-> {},
     client |-> FALSE, resources |-> docs, error |-> "none",
     delType |-> None, rendered |-> <<>>]

\* the operation ended before the cluster was contacted, with the error e
Failed(st, out, e) == [Stopped(st, out, <<>>, <<>>) EXCEPT !.error = e]

\* the build step returned b: the documents and the template rendered
Built(st, out, b, ls) ==
    [Stopped(st, out, b.docs, ls) EXCEPT !.rendered = b.rendered]

\* deploy, up to and including the dry-run return; "go" = deploy to cluster
CliDeployHead(st, a) ==
    IF ~ValidateDeployOptions(a.type, a.port)
    THEN [go |-> FALSE, pol |-> <<>>,
          res |-> Failed(st, "usage_error", PortRequired)]
    ELSE LET b == BuildAndValidateResources(CliBuildKwargs, a)
             pol == <<FinalPolicy(a)>>
         IN  IF b.status = "TypeError"
             THEN [go |-> FALSE, pol |-> pol,
                   res |-> Failed(st, "raised", b.error)]
             ELSE IF b.status = "SystemExit"
             THEN [go |-> FALSE, pol |-> pol,
                   res |-> Failed(st, "exit1", b.error)]
             ELSE IF a.dry_run
             THEN [go |-> FALSE, pol |-> pol,
                   res |-> Built(st, "ok", b, DisplayDryRun(b.docs))]
             ELSE [go |-> TRUE, pol |-> pol,
                   res |-> Built(st, "ok", b, <<>>)]

\* create_deployment, up to and including the dry-run return
ApiCreateHead(st, a) ==
    IF ~ValidateDeployOptions(a.type, a.port)
    THEN [go |-> FALSE, pol |-> <<>>,
          res |-> Failed(st, "http400", PortRequired)]
    ELSE LET b == BuildAndValidateResources(ApiBuildKwargs, a)
             pol == <<FinalPolicy(a)>>
         IN  IF b.status = "TypeError"
             THEN [go |-> FALSE, pol |-> pol,
                   res |-> Failed(st, "http500", b.error)]
             ELSE IF b.status = "SystemExit"
             THEN [go |-> FALSE, pol |-> pol,
                   res |-> Failed(st, "system_exit", b.error)]
             ELSE IF a.dry_run
             THEN [go |-> FALSE, pol |-> pol,
                   res |-> Built(st, "http201", b, DisplayDryRun(b.docs))]
             ELSE [go |-> TRUE, pol |-> pol,
                   res |-> Built(st, "http201", b, <<>>)]

----------------------------------------------------------------------------
(* delete *)

\* the faults of the reads of _detect_type: "Deployment" / "Job" = that read
\* raises an ApiException although the object is there, "Exception" = the
\* read of the Deployment raises another exception
ReadFaults == {"none", "Deployment", "Job", "Exception"}

\* _detect_type: an ApiException of either read (the object is absent, or
\* the read failed) is passed over; any other exception ends the detection
\* with None
DetectType(st, readFault) ==
    IF readFault = "Exception"
    THEN [type |-> None, calls |-> <<Call("read", "Deployment", 0)>>]
    ELSE IF st.cluster["Deployment"] # 0 /\ readFault # "Deployment"
    THEN [type |-> IF st.label = "missing" THEN "service" ELSE st.label,
          calls |-> <<Call("read", "Deployment", 0)>>]
    ELSE IF st.cluster["Job"] # 0 /\ readFault # "Job"
    THEN [type |-> "job",
          calls |-> <<Call("read", "Deployment", 0), Call("read", "Job", 0)>>]
    ELSE [type |-> None,
          calls |-> <<Call("read", "Deployment", 0), Call("read", "Job", 0)>>]

\* the kinds _delete_resources deletes for app_type, in order
DeleteOrder(appType) ==
    (IF appType \in {"service", "worker"} THEN <<"Deployment">> ELSE <<>>)
    \o (IF appType = "job" THEN <<"Job">> ELSE <<>>)
    \o <<"Service", "HorizontalPodAutoscaler", "ServiceMonitor",
         "ExternalSecret">>

\* the status answered to the delete call number pos (delFail: the call
\* that is answered 500)
Answer(st, kind, pos, delFail) ==
    IF pos = delFail THEN 500 ELSE DeleteAnswer(st, kind)

\* variant: no status is raised again
PropagatesNever(kind, status) == FALSE

\* "except ApiException as e: if e.status != 404: raise"; for the
\* ExternalSecret the handler passes on every status
Propagates(kind, status) ==
    IF kind = "ExternalSecret" THEN FALSE ELSE status # 404

RECURSIVE DeleteFrom(_, _, _, _)
DeleteFrom(acc, kinds, pos, delFail) ==
    IF pos > Len(kinds) THEN acc
    ELSE LET kind == kinds[pos]
             status == Answer(acc.st, kind, pos, delFail)
             cs == Append(acc.calls, [api |-> "delete", kind |-> kind,
                                      pos |-> pos, status |-> status])
         IN  IF status = 200
             THEN DeleteFrom([acc EXCEPT !.st = Removed(acc.st, kind),
                                         !.calls = cs,
                                         !.report = Append(acc.report,
                                             Line(kind, "deleted", pos))],
                             kinds, pos + 1, delFail)
             ELSE IF Propagates(kind, status)
             THEN [acc EXCEPT !.calls = cs, !.raised = TRUE,
                              !.injected = TRUE]
             ELSE DeleteFrom([acc EXCEPT !.calls = cs], kinds, pos + 1,
                             delFail)

\* _delete_resources(client, name, namespace, app_type)
DeleteResources(st, appType, delFail) ==
    DeleteFrom(Run(st, <<>>, <<>>, <<>>, FALSE, FALSE), DeleteOrder(appType),
               1, delFail)

\* variant: the answer to the confirmation is not looked at
DeclinedNever(a) == FALSE

\* "if not force: if not click.confirm(...)": the operator declined
Declined(a) == ~a.force /\ ~a.confirm

\* "if detected_type": None and the empty string are falsy
Undetected(type) == type \in {None, ""}

\* the delete command: detect, confirm, delete
CliDelete(st, a, readFault, delFail) ==
    LET det == IF a.type = "auto" THEN DetectType(st, readFault)
               ELSE [type |-> a.type, calls |-> <<>>]
        type == IF Undetected(det.type) THEN "service" ELSE det.type
        warn == IF Undetected(det.type) THEN {"undetected"} ELSE {}
        r0 == Run(st, det.calls, <<>>, <<>>, FALSE, FALSE)
    IN  IF Declined(a)
        THEN [Done(r0, "cancelled", warn, TRUE) EXCEPT !.delType = type]
        ELSE LET r == DeleteResources(st, type, delFail)
                 rr == [r EXCEPT !.calls = det.calls \o r.calls]
             IN  [Done(rr, IF r.raised THEN "exit1" ELSE "ok", warn, TRUE)
                     EXCEPT !.delType = type,
                            !.error = IF r.raised THEN ClusterError
                                      ELSE "none"]

\* delete_deployment of the API: one client.delete_deployment call; any
\* exception becomes HTTPException(404 if "not found" in its text else 500)
ApiDeleteStatus(status) ==
    IF status = 200 THEN "http204"
    ELSE IF status = 404 THEN "http404" ELSE "http500"

ApiDelete(st, delFail) ==
    LET status == Answer(st, "Deployment", 1, delFail)
        cs == <<[api |-> "delete", kind |-> "Deployment", pos |-> 1,
                 status |-> status]>>
        st2 == IF status = 200 THEN Removed(st, "Deployment") ELSE st
    IN  [Done(Run(st2, cs, <<>>, <<>>, status # 200, status = 500),
              ApiDeleteStatus(status), {}, TRUE)
            EXCEPT !.error = IF status = 200 THEN "none" ELSE ClusterError]

----------------------------------------------------------------------------
(* status --watch *)

\* time.sleep(2)
Interval == 2

\* the faults of one poll: the call named is answered with the status
\* (reads of an absent object are answered 404 by the cluster itself)
PollFaults ==
    {[call |-> "none", status |-> 200]} \cup
    [call : {"Deployment", "Job", "Service", "Pods", "HPA"},
     status : {404, 500}]

Faulty(fault, call) == fault.call = call

\* variant: every ApiException of the workload reads means "not there"
RaisesNever(status) == FALSE

\* "except ApiException as e: if e.status == 404: return None; raise"
Raises(status) == status # 404

\* what a poll gives: found = "deployment", "job", "none" (return None) or
\* "raised" (an ApiException left the function)
Polled(found, cs) == [found |-> found, calls |-> cs]

\* core_v1.list_namespaced_pod, inside the try of either function
ListPods(fault, found, cs) ==
    LET cs2 == Append(cs, Call("list", "Pods", 0)) IN
    IF Faulty(fault, "Pods")
    THEN Polled(IF Raises(fault.status) THEN "raised" ELSE "none", cs2)
    ELSE Polled(found, cs2)

\* _get_deployment_status: the reads of the Service and of the
\* HorizontalPodAutoscaler pass over every ApiException
GetDeploymentStatus(st, fault) ==
    LET cs == <<Call("read", "Deployment", 0)>> IN
    IF Faulty(fault, "Deployment")
    THEN Polled(IF Raises(fault.status) THEN "raised" ELSE "none", cs)
    ELSE IF st.cluster["Deployment"] = 0
    THEN Polled("none", cs)
    ELSE LET p == ListPods(fault, "deployment",
                           Append(cs, Call("read", "Service", 0)))
         IN  IF p.found = "deployment"
             THEN Polled("deployment",
                         Append(p.calls,
                                Call("read", "HorizontalPodAutoscaler", 0)))
             ELSE p

\* _get_job_status
GetJobStatus(st, fault) ==
    LET cs == <<Call("read", "Job", 0)>> IN
    IF Faulty(fault, "Job")
    THEN Polled(IF Raises(fault.status) THEN "raised" ELSE "none", cs)
    ELSE IF st.cluster["Job"] = 0
    THEN Polled("none", cs)
    ELSE ListPods(fault, "job", cs)

\* one pass of the body of "while True": the Deployment first, the Job if
\* that gave nothing
PollOnce(st, fault) ==
    LET d == GetDeploymentStatus(st, fault) IN
    IF d.found = "none"
    THEN LET j == GetJobStatus(st, fault)
         IN  Polled(j.found, d.calls \o j.calls)
    ELSE d

\* pc: "idle" (not started), "poll" (at the top of the loop), "sleep" (in
\* time.sleep), "stopped" (KeyboardInterrupt caught), "exit1" (sys.exit(1))
NotWatching ==
    [pc |-> "idle", polls |-> 0, slept |-> 0, last |-> "none",
     calls |-> <<>>, cause |-> "none",
     fault |-> [call |-> "none", status |-> 200]]

----------------------------------------------------------------------------
(* list *)

\* application names and namespaces, each in ascending string order
AppNames == <<"api", "web">>
Namespaces == <<"dev", "prod">>

Index(seq, x) == CHOOSE i \in DOMAIN seq : seq[i] = x

\* the key of the sort: (namespace, name), compared as Python compares
\* tuples of strings
KeyLess(x, y) ==
    \/ Index(Namespaces, x.namespace) < Index(Namespaces, y.namespace)
    \/ /\ x.namespace = y.namespace
       /\ Index(AppNames, x.name) < Index(AppNames, y.name)

KeyEqual(x, y) == x.namespace = y.namespace /\ x.name = y.name

\* list.sort(key=...): ascending and stable
SortByKey(apps) ==
    LET place(i) ==
            1 + Cardinality({j \in DOMAIN apps : KeyLess(apps[j], apps[i])})
              + Cardinality({j \in DOMAIN apps :
                                j < i /\ KeyEqual(apps[j], apps[i])})
    IN  [p \in DOMAIN apps |-> apps[CHOOSE i \in DOMAIN apps : place(i) = p]]

\* variant: the label as it is
ListedTypeOfLabel(label) == IF label = "missing" THEN "service" ELSE label

\* labels.get("type", "service"), and service unless service or worker
ListedType(label) ==
    IF label \in {"service", "worker"} THEN label ELSE "service"

\* list_namespaced_* / list_*_for_all_namespaces: what the cluster returns
ItemsIn(items, namespace) ==
    IF namespace \in {None, ""} THEN items
    ELSE SelectSeq(items, LAMBDA x : x.namespace = namespace)

Entry(x, kind, type) ==
    [name |-> x.name, namespace |-> x.namespace, type |-> type, kind |-> kind]

\* _get_deployments: cut = the number of items appended before an
\* exception ended the loop (the exception is echoed, the list returned)
GetDeployments(items, namespace, cut) ==
    LET got == ItemsIn(items, namespace)
        n == IF cut < Len(got) THEN cut ELSE Len(got)
    IN  [i \in 1..n |-> Entry(got[i], "Deployment", ListedType(got[i].label))]

\* _get_jobs
GetJobs(items, namespace) ==
    LET got == ItemsIn(items, namespace)
    IN  [i \in DOMAIN got |-> Entry(got[i], "Job", "job")]

\* list_apps: collect, filter by type, sort
ListApps(a) ==
    LET deployments ==
            IF a.type \in {"all", "service", "worker"}
            THEN LET ds == GetDeployments(a.deployments, a.namespace, a.cut)
                 IN  IF a.type = "all" THEN ds
                     ELSE SelectSeq(ds, LAMBDA x : x.type = a.type)
            ELSE <<>>
        jobs == IF a.type \in {"all", "job"}
                THEN GetJobs(a.jobs, a.namespace) ELSE <<>>
    IN  SortByKey(deployments \o jobs)

----------------------------------------------------------------------------
(* Template store *)

\* A name and a content are sequences of characters; CR and LF stand for
\* "\r" and "\n".  The file of a name is template_dir / (name + ".yaml.j2"),
\* one file per name, so the directory is a function from names to what
\* the files hold.

\* os.linesep of the platform the service runs on
LineSep == <<"LF">>

\* Path.write_text: text mode, newline=None: every "\n" is written as
\* os.linesep
RECURSIVE WrittenText(_)
WrittenText(content) ==
    IF content = <<>> THEN <<>>
    ELSE (IF Head(content) = "LF" THEN LineSep ELSE <<Head(content)>>)
            \o WrittenText(Tail(content))

\* Path.read_text: text mode, newline=None: "\r\n" and "\r" are read as
\* "\n"
RECURSIVE ReadText(_)
ReadText(held) ==
    IF held = <<>> THEN <<>>
    ELSE IF Head(held) = "CR"
         THEN IF Len(held) > 1 /\ held[2] = "LF"
              THEN <<"LF">> \o ReadText(SubSeq(held, 3, Len(held)))
              ELSE <<"LF">> \o ReadText(Tail(held))
         ELSE <<Head(held)>> \o ReadText(Tail(held))

\* a failing write_text: "write" is an error raised by the write, after
\* the file was opened with mode "w" (the file exists and is empty)
WriteFaults == {"none", "write"}

WriteText(files, name, content, w) ==
    [n \in DOMAIN files \cup {name} |->
        IF n = name
        THEN (IF w = "write" THEN <<>> ELSE WrittenText(content))
        ELSE files[n]]

\* template_file.exists()
Exists(files, name) == name \in DOMAIN files

\* variant: only the empty name is invalid
InvalidNameEmpty(name) == name = <<>>

\* not name or "/" in name or ".." in name
InvalidName(name) ==
    \/ name = <<>>
    \/ \E i \in DOMAIN name : name[i] = "/"
    \/ \E i \in DOMAIN name :
          i < Len(name) /\ name[i] = "." /\ name[i + 1] = "."

Response(status, content, files) ==
    [status |-> status, content |-> content, files |-> files]

\* get_template
GetTemplate(files, name) ==
    IF ~Exists(files, name) THEN Response(404, <<>>, files)
    ELSE Response(200, ReadText(files[name]), files)

\* create_template
CreateTemplate(files, name, content, w) ==
    IF Exists(files, name) THEN Response(409, <<>>, files)
    ELSE IF InvalidName(name) THEN Response(400, <<>>, files)
    ELSE IF w # "none"
         THEN Response(500, <<>>, WriteText(files, name, content, w))
         ELSE Response(201, content, WriteText(files, name, content, w))

\* update_template
UpdateTemplate(files, name, content, w) ==
    IF ~Exists(files, name) THEN Response(404, <<>>, files)
    ELSE IF w # "none"
         THEN Response(500, <<>>, WriteText(files, name, content, w))
         ELSE Response(200, content, WriteText(files, name, content, w))

\* delete_template: template_file.unlink()
DeleteTemplate(files, name) ==
    IF ~Exists(files, name) THEN Response(404, <<>>, files)
    ELSE Response(204, <<>>, [n \in DOMAIN files \ {name} |-> files[n]])

\* names a request body can carry
TemplateNames ==
    {<<"a">>, <<"b">>, <<>>, <<"a", "/", "b">>, <<"a", ".", ".">>}

\* names the route /api/templates/{name} matches: one path segment
PathNames ==
    {n \in TemplateNames : n # <<>> /\ \A i \in DOMAIN n : n[i] # "/"}

Succeeded(status) == status \in 200..299

\* an empty directory, no call answered
NoTemplates ==
    [files |-> <<>>, prior |-> <<>>, recent |-> <<>>, call |-> "none",
     name |-> <<>>, sent |-> <<>>, status |-> 0, content |-> <<>>]

\* the store after a call: recent is the latest create, update or delete
\* of each name that succeeded, with the content it was sent
Answered(t, call, name, sent, r) ==
    [files |-> r.files, prior |-> t.files,
     recent |-> IF call # "get" /\ Succeeded(r.status)
                THEN [n \in DOMAIN t.recent \cup {name} |->
                         IF n = name
                         THEN [call |-> IF call = "delete" THEN "delete"
                                        ELSE "write",
                               content |-> sent]
                         ELSE t.recent[n]]
                ELSE t.recent,
     call |-> call, name |-> name, sent |-> sent, status |-> r.status,
     content |-> r.content]

----------------------------------------------------------------------------
(* Inputs *)

Injective(s) == \A i, j \in DOMAIN s : i # j => s[i] # s[j]

KindLists ==
    {s \in UNION {[1..n -> DocKinds] : n \in 0..MaxDocs} : Injective(s)}

HasKind(ks, kind) == \E i \in DOMAIN ks : ks[i] = kind

\* the lists of documents of one revision (one label on the Deployment)
DocLists ==
    {[i \in DOMAIN ks |-> Doc(ks[i], rev, label)] :
        <<ks, rev, label>> \in
            {t \in KindLists \X (1..MaxRev) \X DocLabels :
                HasKind(t[1], "Deployment") \/ t[3] = "service"}}

FailPoints(docs) == 0..(2 * Len(docs))

\* clusters an operation may find: at most MaxLive objects, at revision 1
LiveSets == {S \in SUBSET Kinds : Cardinality(S) <= MaxLive}

GitRepos == {None, "", "https://git/repo"}

\* arguments of deploy (types: the click.Choice) and of create_deployment
\* (type is any string)
DeployArgs(types) ==
    [type : types, port : Opt({0, 8080}), replicas : 0..MaxIn,
     min_replicas : Opt(0..MaxIn), max_replicas : Opt(0..MaxIn),
     cpu_target : Opt({0}), autoscaling : BOOLEAN, metrics : {TRUE},
     dry_run : BOOLEAN, gitops : BOOLEAN, git_repo : {None, "https://git/repo"},
     template : {None, "custom-service"}, rev : {1}]

\* what _deploy_to_cluster and the apply phase of create_deployment are
\* given: an assembled list and the GitOps options
PhaseArgs ==
    {a \in [type : KnownTypes, autoscaling : BOOLEAN, metrics : BOOLEAN,
            rev : 1..MaxRev, gitops : BOOLEAN, git_repo : GitRepos] :
        ~a.gitops => a.git_repo = None}

DeleteArgs ==
    {a \in [type : KnownTypes \cup {"auto"}, force : BOOLEAN,
            confirm : BOOLEAN] : a.force => a.confirm}

ResolveArgs ==
    [type : KnownTypes, replicas : (-MaxNeg)..MaxReplicas,
     min_replicas : Opt((-MaxNeg)..MaxReplicas),
     max_replicas : Opt((-MaxNeg)..MaxReplicas)]

Range(seq) == {seq[i] : i \in DOMAIN seq}

ListLabels == {"service", "worker", "other", "missing"}

\* the Deployments and the Jobs of a cluster, in the order it lists them:
\* one object per name and namespace
DeploymentItems ==
    {s \in UNION {[1..n -> [name : Range(AppNames),
                            namespace : Range(Namespaces),
                            label : ListLabels]] : n \in 0..MaxApps} :
        \A i, j \in DOMAIN s : i # j => ~KeyEqual(s[i], s[j])}

JobItems ==
    {s \in UNION {[1..n -> [name : Range(AppNames),
                            namespace : Range(Namespaces)]] :
                     n \in 0..MaxJobs} :
        \A i, j \in DOMAIN s : i # j => ~KeyEqual(s[i], s[j])}

Characters == {"k", "CR", "LF"}

Contents == UNION {[1..n -> Characters] : n \in 0..MaxContent}

----------------------------------------------------------------------------
(* Operations *)

Init ==
    /\ \E S \in LiveSets : cluster = [k \in Kinds |-> IF k \in S THEN 1 ELSE 0]
    /\ depLabel \in LabelValues
    /\ cluster["Deployment"] = 0 => depLabel = "missing"
    /\ op = "none"
    /\ args = NoArgs
    /\ resources = <<>>
    /\ calls = <<>>
    /\ attempted = <<>>
    /\ failed = {}
    /\ gitops = "none"
    /\ report = <<>>
    /\ outcome = "none"
    /\ warnings = {}
    /\ client = FALSE
    /\ policy = <<>>
    /\ before = cluster
    /\ labelBefore = depLabel
    /\ error = "none"
    /\ delType = None
    /\ rendered = <<>>
    /\ watch = NotWatching
    /\ listed = <<>>
    /\ templates = NoTemplates

\* the operation name(a) ran on docs and ended as r
Finish(name, a, docs, r, pol) ==
    /\ op' = name
    /\ args' = a
    /\ resources' = docs
    /\ cluster' = r.st.cluster
    /\ depLabel' = r.st.label
    /\ calls' = r.calls
    /\ attempted' = r.attempted
    /\ failed' = r.failed
    /\ gitops' = r.gitops
    /\ report' = r.report
    /\ outcome' = r.outcome
    /\ warnings' = r.warnings
    /\ client' = r.client
    /\ policy' = pol
    /\ error' = r.error
    /\ delType' = r.delType
    /\ rendered' = r.rendered
    /\ UNCHANGED <<before, labelBefore, watch, listed, templates>>

Here == St(cluster, depLabel)

\* how a direct call of _apply_resources ended
Applied(r) ==
    [Done(r, IF r.raised THEN "raised" ELSE "ok", {}, TRUE)
        EXCEPT !.error = IF r.raised THEN ApplyFailed ELSE "none"]

\* a caller invokes _apply_resources(client, resources, name, namespace, click)
ApplyResourcesCall ==
    /\ op = "none"
    /\ \E docs \in DocLists, typed \in BOOLEAN :
       \E failAt \in FailPoints(docs) :
          LET r == ApplyResources(Here, docs, "click", typed, failAt) IN
          Finish("apply", [typed |-> typed, failAt |-> failAt], docs,
                 Applied(r), <<>>)

\* _apply_resources invoked twice in a row with the same documents, every
\* cluster call answered by the cluster as it is; the record is that of the
\* second invocation
ApplyTwiceCall ==
    /\ op = "none"
    /\ \E docs \in DocLists, typed \in BOOLEAN :
          LET r1 == ApplyResources(Here, docs, "click", typed, 0)
              r2 == ApplyResources(r1.st, docs, "click", typed, 0)
          IN  IF r1.raised
              THEN Finish("apply_twice", [typed |-> typed, first |-> "raised"],
                          docs, Applied(r1), <<>>)
              ELSE Finish("apply_twice", [typed |-> typed, first |-> "ok"],
                          docs,
                          Applied(r2), <<>>)

\* _deploy_to_cluster(kubeconfig, resources, name, namespace, gitops, ...)
DeployToClusterCall ==
    /\ op = "none"
    /\ \E a \in PhaseArgs, typed \in BOOLEAN, gfault \in BOOLEAN :
       \E failAt \in FailPoints(Assemble(a.type, a)) :
          Finish("deploy_to_cluster",
                 a @@ [typed |-> typed,
                     failAt |-> failAt, gfault |-> gfault],
                 Assemble(a.type, a),
                 DeployToCluster(Here, Assemble(a.type, a), a, typed, failAt,
                                 gfault), <<>>)

\* the apply phase of create_deployment, entered with an assembled list
ApiApplyPhaseCall ==
    /\ op = "none"
    /\ \E a \in PhaseArgs, typed \in BOOLEAN, gfault \in BOOLEAN :
       \E failAt \in FailPoints(Assemble(a.type, a)) :
          Finish("api_apply",
                 a @@ [typed |-> typed, failAt |-> failAt, gfault |-> gfault],
                 Assemble(a.type, a),
                 ApiApplyPhase(Here, Assemble(a.type, a), a, typed, failAt,
                               gfault), <<>>)

\* mini-idp delete NAME [--type T] [--force]
CliDeleteCall ==
    /\ op = "none"
    /\ \E a \in DeleteArgs, readFault \in ReadFaults,
          delFail \in 0..5 :
          Finish("cli_delete",
                 a @@ [readFault |-> readFault, delFail |-> delFail], <<>>,
                 CliDelete(Here, a, readFault, delFail), <<>>)

\* DELETE /api/deployments/{name}
ApiDeleteCall ==
    /\ op = "none"
    /\ \E delFail \in 0..1 :
          Finish("api_delete", [delFail |-> delFail], <<>>,
                 ApiDelete(Here, delFail), <<>>)

\* mini-idp deploy TYPE NAME ...
CliDeployCall ==
    /\ op = "none"
    /\ \E a \in DeployArgs(KnownTypes) :
          LET h == CliDeployHead(Here, a) IN
          IF ~h.go
          THEN Finish("cli_deploy", a, h.res.resources, h.res, h.pol)
          ELSE \E typed \in BOOLEAN, gfault \in BOOLEAN :
               \E failAt \in FailPoints(h.res.resources) :
                  Finish("cli_deploy", a, h.res.resources,
                         [DeployToCluster(Here, h.res.resources, a, typed,
                                          failAt, gfault)
                             EXCEPT !.rendered = h.res.rendered], h.pol)

\* POST /api/deployments/
ApiCreateDeploymentCall ==
    /\ op = "none"
    /\ \E a \in DeployArgs(KnownTypes \cup {"cron"}) :
          LET h == ApiCreateHead(Here, a) IN
          IF ~h.go
          THEN Finish("api_deploy", a, h.res.resources, h.res, h.pol)
          ELSE \E typed \in BOOLEAN, gfault \in BOOLEAN :
               \E failAt \in FailPoints(h.res.resources) :
                  Finish("api_deploy", a, h.res.resources,
                         [ApiApplyPhase(Here, h.res.resources, a, typed,
                                        failAt, gfault)
                             EXCEPT !.rendered = h.res.rendered], h.pol)

\* a direct call of _calculate_hpa_defaults
ResolveCall ==
    /\ op = "none"
    /\ \E a \in ResolveArgs :
          Finish("resolve", a, <<>>, Stopped(Here, "ok", <<>>, <<>>),
                 <<CalculateHpaDefaults(a.type, a.replicas, a.min_replicas,
                                        a.max_replicas)>>)

\* what the actions of the watch leave alone
watchFrame ==
    <<args, resources, calls, attempted, failed, gitops, report, outcome,
      warnings, policy, before, labelBefore, error, delType, rendered,
      listed, templates>>

\* mini-idp status NAME --watch: the client is made, the loop entered
WatchStart ==
    /\ op = "none"
    /\ op' = "status_watch"
    /\ client' = TRUE
    /\ watch' = [watch EXCEPT !.pc = "poll"]
    /\ UNCHANGED <<cluster, depLabel>>
    /\ UNCHANGED watchFrame

\* one pass of the loop body up to time.sleep; an exception other than
\* KeyboardInterrupt leaves the loop, is echoed and ends with sys.exit(1)
WatchPoll ==
    /\ watch.pc = "poll"
    /\ watch.polls < MaxPolls
    /\ \E fault \in PollFaults :
          LET p == PollOnce(Here, fault) IN
          watch' = [watch EXCEPT
                       !.pc = IF p.found = "raised" THEN "exit1" ELSE "sleep",
                       !.polls = @ + 1,
                       !.last = p.found,
                       !.calls = p.calls,
                       !.fault = fault,
                       !.cause = IF p.found = "raised" THEN "ApiException"
                                 ELSE @]
    /\ UNCHANGED <<cluster, depLabel, op, client>>
    /\ UNCHANGED watchFrame

\* time.sleep(2) returns
WatchSleep ==
    /\ watch.pc = "sleep"
    /\ watch' = [watch EXCEPT !.pc = "poll", !.slept = @ + Interval]
    /\ UNCHANGED <<cluster, depLabel, op, client>>
    /\ UNCHANGED watchFrame

\* Ctrl+C: KeyboardInterrupt, raised wherever the loop is
WatchInterrupt ==
    /\ watch.pc \in {"poll", "sleep"}
    /\ watch' = [watch EXCEPT !.pc = "stopped", !.cause = "KeyboardInterrupt"]
    /\ UNCHANGED <<cluster, depLabel, op, client>>
    /\ UNCHANGED watchFrame

\* the application is deployed or deleted by someone while it is watched
ClusterChanges ==
    /\ watch.pc \in {"poll", "sleep"}
    /\ \E kind \in {"Deployment", "Job"} :
          LET st == IF cluster[kind] = 0
                    THEN Written(Here, Doc(kind, 1, "service"))
                    ELSE Removed(Here, kind)
          IN  cluster' = st.cluster /\ depLabel' = st.label
    /\ UNCHANGED <<op, client, watch>>
    /\ UNCHANGED watchFrame

\* mini-idp list [--namespace N] [--type T]
ListAppsCall ==
    /\ op = "none"
    /\ \E ds \in DeploymentItems, js \in JobItems,
          type \in KnownTypes \cup {"all"}, ns \in {None, "dev"} :
       \E cut \in 0..Len(ds) :
          LET a == [type |-> type, namespace |-> ns, deployments |-> ds,
                    jobs |-> js, cut |-> cut]
          IN  /\ op' = "list"
              /\ args' = a
              /\ client' = TRUE
              /\ outcome' = "ok"
              /\ listed' = ListApps(a)
    /\ UNCHANGED <<cluster, depLabel, resources, calls, attempted, failed,
                   gitops, report, warnings, policy, before, labelBefore,
                   error, delType, rendered, watch, templates>>

\* every variable but the template store
storeFrame ==
    <<cluster, depLabel, op, args, resources, calls, attempted, failed,
      gitops, report, outcome, warnings, client, policy, before, labelBefore,
      error, delType, rendered, watch, listed>>

\* GET /api/templates/{name}
GetTemplateCall ==
    /\ op = "none"
    /\ \E name \in PathNames :
          templates' = Answered(templates, "get", name, <<>>,
                                GetTemplate(templates.files, name))
    /\ UNCHANGED storeFrame

\* POST /api/templates/
CreateTemplateCall ==
    /\ op = "none"
    /\ \E name \in TemplateNames, content \in Contents, w \in WriteFaults :
          templates' = Answered(templates, "create", name, content,
                                CreateTemplate(templates.files, name,
                                               content, w))
    /\ UNCHANGED storeFrame

\* PUT /api/templates/{name}
UpdateTemplateCall ==
    /\ op = "none"
    /\ \E name \in PathNames, content \in Contents, w \in WriteFaults :
          templates' = Answered(templates, "update", name, content,
                                UpdateTemplate(templates.files, name,
                                               content, w))
    /\ UNCHANGED storeFrame

\* DELETE /api/templates/{name}
DeleteTemplateCall ==
    /\ op = "none"
    /\ \E name \in PathNames :
          templates' = Answered(templates, "delete", name, <<>>,
                                DeleteTemplate(templates.files, name))
    /\ UNCHANGED storeFrame

----------------------------------------------------------------------------
(* Specifications *)

\* the applier, the registrar and delete against a cluster
Next ==
    \/ ApplyResourcesCall
    \/ ApplyTwiceCall
    \/ DeployToClusterCall
    \/ ApiApplyPhaseCall
    \/ CliDeleteCall
    \/ ApiDeleteCall

Spec == Init /\ [][Next]_vars

\* the deploy command and the create_deployment endpoint
NextDeploy ==
    \/ CliDeployCall
    \/ ApiCreateDeploymentCall

SpecDeploy == Init /\ [][NextDeploy]_vars

\* the defaults calculator on its own
InitEmpty == Init /\ \A k \in Kinds : cluster[k] = 0

NextResolve == ResolveCall

SpecResolve == InitEmpty /\ [][NextResolve]_vars

\* the status command with --watch
NextWatch ==
    \/ WatchStart
    \/ WatchPoll
    \/ WatchSleep
    \/ WatchInterrupt
    \/ ClusterChanges

SpecWatch == Init /\ [][NextWatch]_vars

\* the list command
NextList == ListAppsCall

SpecList == InitEmpty /\ [][NextList]_vars

\* the template endpoints, in any order
NextTemplates ==
    \/ GetTemplateCall
    \/ CreateTemplateCall
    \/ UpdateTemplateCall
    \/ DeleteTemplateCall

SpecTemplates == InitEmpty /\ [][NextTemplates]_vars

----------------------------------------------------------------------------
(* Properties *)

ApplierOps == {"apply", "apply_twice", "deploy_to_cluster", "api_apply"}
DeployOps == {"cli_deploy", "api_deploy"}

\* the calls the applier issued for the documents of the list
DocCalls == {i \in DOMAIN calls : calls[i].api \in {"create_from_yaml", "apply"}
                                  /\ calls[i].kind # "Application"}

Surfaced == outcome \in {"raised", "exit1", "http500"}

\* C1: fail-fast apply.  Once the application of the document at position
\* p has raised, no later document is handed to a handler and no cluster
\* call is issued for one, no call is issued twice (no retry), nothing is
\* registered afterwards, and the invocation ends with the failure.
C1_FailFast ==
    op \in ApplierOps =>
        \A p \in failed :
            /\ Len(attempted) = p
            /\ \A i \in DocCalls : calls[i].pos <= p
            /\ \A i, j \in DOMAIN calls : i # j => calls[i] # calls[j]
            /\ gitops = "none"
            /\ Surfaced

\* three documents, the second raises: two lines, the second one "failed"
C1_Witness ==
    /\ op = "apply"
    /\ Len(resources) = 3
    /\ failed = {2}
    /\ Len(attempted) = 2
    /\ Len(report) = 2
    /\ report[1].action \in {"created", "updated"}
    /\ report[2].action = "failed"
    /\ \E i \in DocCalls : calls[i].pos = 2

\* C2: apply idempotence.  After two invocations in a row with the same
\* documents (of kinds the applier handles), the second invocation reports
\* "updated" for every document, never a failure, and every live object
\* carries the submitted revision.
C2_Idempotent ==
    (/\ op = "apply_twice"
     /\ args.first = "ok"
     /\ \A i \in DOMAIN resources : resources[i].kind \in HandlerKinds)
    => /\ outcome = "ok"
       /\ failed = {}
       /\ \A i \in DOMAIN resources :
             /\ cluster[resources[i].kind] = resources[i].rev
             /\ \E l \in DOMAIN report :
                   report[l] = Line(resources[i].kind, "updated", i)

C4_MinLeMax ==
    op = "resolve" => policy[1].min <= policy[1].max

\* C5: the policy handed to the assembler by deploy and create_deployment
\* satisfies min <= max with both positive.
C5_PolicyValid ==
    (op \in DeployOps /\ policy # <<>>) =>
        /\ policy[1].min <= policy[1].max
        /\ policy[1].min >= 1
        /\ policy[1].max >= 1

\* C6: a dry run of a valid request shows the assembled documents and ends
\* well, without a client, a cluster call or a registration, and leaves the
\* cluster as it was.
C6_DryRun ==
    (/\ op \in DeployOps
     /\ args.dry_run
     /\ args.type \in KnownTypes
     /\ ValidateDeployOptions(args.type, args.port))
    => /\ outcome \in {"ok", "http201"}
       /\ resources = Assemble(args.type, args)
       /\ report = DisplayDryRun(resources)
       /\ ~client
       /\ calls = <<>>
       /\ gitops = "none"
       /\ cluster = before

Rejected == outcome \in {"usage_error", "http400"}

\* C7 as stated: of the requests of a known type, the validation rejects
\* exactly those of type service with the port absent.
C7_OnlyAbsentPort ==
    (op \in DeployOps /\ args.type \in KnownTypes) =>
        (Rejected <=> (args.type = "service" /\ IsNone(args.port)))

\* C7 as amended: of the requests of a known type, the validation rejects
\* exactly those of type service with the port absent or 0; a rejected
\* request assembles nothing and issues no cluster call.
C7_PortValidation ==
    (op \in DeployOps /\ args.type \in KnownTypes) =>
        /\ Rejected <=>
              (args.type = "service"
               /\ (IsNone(args.port) \/ Val(args.port) = 0))
        /\ Rejected =>
              /\ resources = <<>>
              /\ policy = <<>>
              /\ calls = <<>>
              /\ ~client
              /\ cluster = before

\* a service request without a port, refused by the command
C7_Witness ==
    /\ op = "cli_deploy"
    /\ args.type = "service"
    /\ IsNone(args.port)
    /\ outcome = "usage_error"

\* C8: when the registration fails after every document was applied, the
\* operation still ends well, with the failure as a warning.
C8_GitopsIsolation ==
    (/\ op \in {"deploy_to_cluster", "api_apply"}
     /\ failed = {}
     /\ gitops = "failed")
    => outcome \in {"ok", "http201"}

\* C9: a delete in which no call is answered with an error other than 404
\* ends without error, on the command and on the endpoint.
C9_IdempotentDelete ==
    (/\ op \in {"cli_delete", "api_delete"}
     /\ \A i \in DOMAIN calls :
           calls[i].api = "delete" => calls[i].status \in {200, 404})
    => outcome \in {"ok", "cancelled", "http204"}

\* C10: after an apply that ended well, the documents of kinds outside the
\* handler table are live on the cluster at the submitted revision.
C10_OtherKindsApplied ==
    (op = "apply" /\ outcome = "ok") =>
        \A i \in DOMAIN resources :
            resources[i].kind \notin HandlerKinds =>
                cluster[resources[i].kind] = resources[i].rev

BaseMax ==
    IF IsNone(args.max_replicas)
    THEN Max(10, args.replicas * (IF args.type = "service" THEN 3 ELSE 2))
    ELSE Val(args.max_replicas)

\* C12 as stated: when max_replicas is not given, the maximum returned is
\* max(10, replicas * 3) for a service and max(10, replicas * 2) for any
\* other type, whatever min_replicas is.
C12_DefaultMaxAlways ==
    (op = "resolve" /\ IsNone(args.max_replicas)) => policy[1].max = BaseMax

\* C12 as amended: when max_replicas is not given, the maximum returned is
\* that default unless the minimum returned exceeds it, and then it is
\* twice the minimum.
C12_DefaultMax ==
    (op = "resolve" /\ IsNone(args.max_replicas)) =>
        policy[1].max = IF policy[1].min > BaseMax THEN 2 * policy[1].min
                        ELSE BaseMax

\* a worker of six replicas, nothing given: the maximum is 12
C12_Witness ==
    /\ op = "resolve"
    /\ args.type = "worker"
    /\ args.replicas = 6
    /\ IsNone(args.min_replicas)
    /\ IsNone(args.max_replicas)
    /\ policy[1].max = 12

\* C13: CPU target.  A cpu_target that is given (0 included) is the target
\* of the policy; when none is given and the calculator branch is taken
\* (autoscaling on, type not job) the target is 60 for a worker and 70 for
\* every other type.
C13_CpuTarget ==
    (op \in DeployOps /\ policy # <<>>) =>
        /\ ~IsNone(args.cpu_target) => policy[1].cpu = Val(args.cpu_target)
        /\ (IsNone(args.cpu_target) /\ args.autoscaling /\ args.type # "job")
              => policy[1].cpu = IF args.type = "worker" THEN 60 ELSE 70

\* deploy worker, one replica, nothing given: {min 1, max 10, cpu 60}
C13_Witness ==
    /\ op = "cli_deploy"
    /\ args.type = "worker"
    /\ args.replicas = 1
    /\ args.autoscaling
    /\ IsNone(args.min_replicas)
    /\ IsNone(args.max_replicas)
    /\ IsNone(args.cpu_target)
    /\ policy # <<>>
    /\ policy[1].min = 1
    /\ policy[1].max = 10
    /\ policy[1].cpu = 60

NoCalculator == ~args.autoscaling \/ args.type = "job"

\* C15 as stated: with autoscaling off or the type job, the calculator is
\* not called and the policy is exactly {min 1, max 10, cpu 70}.
C15_Placeholder ==
    (op \in DeployOps /\ policy # <<>> /\ NoCalculator) =>
        /\ ~policy[1].calc
        /\ policy[1].min = 1
        /\ policy[1].max = 10
        /\ policy[1].cpu = 70

\* C15 as amended: with autoscaling off or the type job, the calculator is
\* not called and each field of the policy is the value given for it, or,
\* when none is given, the placeholder value: 1, 10 and 70.
C15_PlaceholderDefaults ==
    (op \in DeployOps /\ policy # <<>> /\ NoCalculator) =>
        /\ ~policy[1].calc
        /\ policy[1].min = IF IsNone(args.min_replicas) THEN 1
                           ELSE Val(args.min_replicas)
        /\ policy[1].max = IF IsNone(args.max_replicas) THEN 10
                           ELSE Val(args.max_replicas)
        /\ policy[1].cpu = IF IsNone(args.cpu_target) THEN 70
                           ELSE Val(args.cpu_target)

\* a worker without autoscaling, nothing given: the target is 70, not 60
C15_Witness ==
    /\ op = "cli_deploy"
    /\ args.type = "worker"
    /\ ~args.autoscaling
    /\ IsNone(args.min_replicas)
    /\ IsNone(args.max_replicas)
    /\ IsNone(args.cpu_target)
    /\ policy # <<>>
    /\ ~policy[1].calc
    /\ policy[1].min = 1
    /\ policy[1].max = 10
    /\ policy[1].cpu = 70

\* C20: min always wins.  A min_replicas that is given is the minimum
\* returned, for every replicas, type and max_replicas; the repair changes
\* the maximum only, to twice the minimum, and only when the minimum
\* exceeds it.
C20_MinWins ==
    (op = "resolve" /\ ~IsNone(args.min_replicas)) =>
        /\ policy[1].min = Val(args.min_replicas)
        /\ policy[1].max \in {BaseMax, 2 * Val(args.min_replicas)}
        /\ policy[1].max # BaseMax => Val(args.min_replicas) > BaseMax

\* minimum 5 against maximum 3: the pair returned is (5, 10)
C20_Witness ==
    /\ op = "resolve"
    /\ args.min_replicas = Given(5)
    /\ args.max_replicas = Given(3)
    /\ policy[1].min = 5
    /\ policy[1].max = 10

\* the type the detection of delete is to settle on
ExpectedType ==
    IF before["Deployment"] # 0
    THEN (IF labelBefore = "missing" THEN "service" ELSE labelBefore)
    ELSE IF before["Job"] # 0 THEN "job" ELSE "service"

\* C19: type detection of delete.  The Deployment is read first and the Job
\* only after it; with every read answered by the cluster, the type the
\* command settles on is one of service, job, worker: the type label of
\* the Deployment (service without a label) if there is a Deployment, job
\* if there is only a Job, service if there is neither.
C19_DetectType ==
    (op = "cli_delete" /\ args.type = "auto") =>
        /\ Len(calls) >= 1
        /\ calls[1] = Call("read", "Deployment", 0)
        /\ \A i \in DOMAIN calls :
              (calls[i].api = "read" /\ calls[i].kind = "Job") => i = 2
        /\ args.readFault = "none" =>
              (delType \in KnownTypes /\ delType = ExpectedType)

BuildErrors == {UnexpectedKeyword, UnboundName, UnknownType}

\* C14: a deployment of type job.  Whatever the autoscaling flag and the
\* values of min_replicas, max_replicas and cpu_target, the build step
\* accepts the request without an error of its own, and the documents it
\* produces include neither a HorizontalPodAutoscaler nor a Service.
C14_JobNoHpa ==
    (op \in DeployOps /\ args.type = "job") =>
        /\ error \notin BuildErrors
        /\ \A i \in DOMAIN resources :
              resources[i].kind \notin {"HorizontalPodAutoscaler", "Service"}

\* C16: a request of a type other than service, job, worker ends with the
\* unknown-type error of the assembler, without a document, a client or a
\* cluster call, the cluster as it was.
C16_UnsupportedType ==
    (op \in DeployOps /\ args.type \notin KnownTypes) =>
        /\ error = UnknownType
        /\ outcome \notin {"ok", "http201"}
        /\ resources = <<>>
        /\ calls = <<>>
        /\ ~client
        /\ cluster = before

\* the registrar was reached: every document was applied without an error
RegistrarReached ==
    /\ op \in {"deploy_to_cluster", "api_apply"}
    /\ args.gitops
    /\ failed = {}

\* C17: a registration with git_repo absent or empty fails with the
\* missing-repo error; no Application is applied: no call is issued for
\* one and the Application on the cluster is as it was.
C17_MissingRepo ==
    (RegistrarReached /\ args.git_repo \in {None, ""}) =>
        /\ gitops = "failed"
        /\ error = RepoRequired
        /\ \A i \in DOMAIN calls : calls[i].kind # "Application"
        /\ cluster["Application"] = before["Application"]

\* deploy with --gitops and an empty --git-repo: the documents are applied,
\* the registration fails with the missing-repo error, as a warning
C17_Witness ==
    /\ op = "deploy_to_cluster"
    /\ args.gitops
    /\ args.git_repo = ""
    /\ resources # <<>>
    /\ Len(report) = Len(resources)
    /\ gitops = "failed"
    /\ error = RepoRequired
    /\ warnings = {"gitops"}
    /\ \A i \in DOMAIN calls : calls[i].kind # "Application"

Described(kind) == \E i \in DOMAIN resources : resources[i].kind = kind

\* C18: no pruning.  An apply issues no delete, and every object of a kind
\* that no submitted document describes is after the apply as it was
\* before it (the Application is written by the registrar only).
C18_NoPruning ==
    op \in ApplierOps =>
        /\ \A i \in DOMAIN calls : calls[i].api \in {"create_from_yaml", "apply"}
        /\ \A k \in Kinds \ {"Application"} :
              ~Described(k) => cluster[k] = before[k]
        /\ ~Described("Deployment") => depLabel = labelBefore
        /\ gitops # "ok" => cluster["Application"] = before["Application"]

\* an object no document describes is live before and after an apply that
\* wrote the second revision of another object
C18_Witness ==
    /\ op = "apply"
    /\ outcome = "ok"
    /\ \E k \in Kinds :
          /\ ~Described(k)
          /\ before[k] = 1
          /\ cluster[k] = 1
    /\ \E i \in DOMAIN resources :
          /\ resources[i].rev = 2
          /\ cluster[resources[i].kind] = 2

\* C21: template override.  When the build step of a valid request of a
\* known type is over, the renderer was handed the template of the
\* request if one was given, and the default of the type otherwise.
C21_TemplateOverride ==
    (/\ op \in DeployOps
     /\ args.type \in KnownTypes
     /\ ValidateDeployOptions(args.type, args.port))
    => rendered = IF args.template # None THEN <<"override", args.template>>
                  ELSE <<"default", args.type>>

\* C23: after a confirmed delete with type detection that ended without
\* error, neither a Deployment nor a Job of the name is left.
C23_NothingRemains ==
    (/\ op = "cli_delete"
     /\ args.type = "auto"
     /\ args.force \/ args.confirm
     /\ outcome = "ok")
    => (cluster["Deployment"] = 0 /\ cluster["Job"] = 0)

\* the delete calls of the operation, in the order issued
DeleteCalls == SelectSeq(calls, LAMBDA c : c.api = "delete")

KindsOf(cs) == [i \in DOMAIN cs |-> cs[i].kind]

\* the order of the claim for the type the command settled on
OrderOfKinds ==
    <<IF delType = "job" THEN "Job" ELSE "Deployment", "Service",
      "HorizontalPodAutoscaler", "ServiceMonitor", "ExternalSecret">>

\* the call was answered with an error that is to propagate
Fatal(c) == c.kind # "ExternalSecret" /\ c.status \notin {200, 404}

\* C24: _delete_resources, called for a type of service, job, worker.  The
\* delete calls follow the order Deployment or Job, Service,
\* HorizontalPodAutoscaler, ServiceMonitor, ExternalSecret; a status other
\* than 404 on one of the first four ends the run with that error, as the
\* last call, with the objects deleted before it gone; no status on the
\* ExternalSecret ends it; the kinds reported as deleted are exactly those
\* whose call was answered without error.
C24_DeleteOrder ==
    (op = "cli_delete" /\ outcome # "cancelled" /\ delType \in KnownTypes) =>
        /\ Len(DeleteCalls) <= 5
        /\ \A i \in DOMAIN DeleteCalls : DeleteCalls[i].kind = OrderOfKinds[i]
        /\ \A i \in DOMAIN DeleteCalls :
              Fatal(DeleteCalls[i]) =>
                  /\ i = Len(DeleteCalls)
                  /\ outcome = "exit1"
                  /\ error = ClusterError
        /\ (\A i \in DOMAIN DeleteCalls : ~Fatal(DeleteCalls[i])) =>
              (Len(DeleteCalls) = 5 /\ outcome = "ok")
        /\ KindsOf(report) =
              KindsOf(SelectSeq(DeleteCalls, LAMBDA c : c.status = 200))
        /\ \A i \in DOMAIN DeleteCalls :
              DeleteCalls[i].status = 200 => cluster[DeleteCalls[i].kind] = 0

\* the Deployment is deleted, the Service is absent, the delete of the
\* HorizontalPodAutoscaler is answered 500: the run ends there
C24_Witness ==
    /\ op = "cli_delete"
    /\ delType = "service"
    /\ outcome = "exit1"
    /\ Len(DeleteCalls) = 3
    /\ DeleteCalls[1].status = 200
    /\ DeleteCalls[2].status = 404
    /\ DeleteCalls[3].status = 500
    /\ KindsOf(report) = <<"Deployment">>
    /\ before["Deployment"] = 1
    /\ cluster["Deployment"] = 0

\* C25: a delete without --force whose confirmation is declined issues no
\* delete call, only the reads of the type detection, and leaves the
\* cluster as it was.
C25_DeclinedDelete ==
    (op = "cli_delete" /\ ~args.force /\ ~args.confirm) =>
        /\ outcome = "cancelled"
        /\ \A i \in DOMAIN calls : calls[i].api = "read"
        /\ report = <<>>
        /\ cluster = before
        /\ depLabel = labelBefore

\* a live Deployment is detected, the operator declines, it stays live
C25_Witness ==
    /\ op = "cli_delete"
    /\ args.type = "auto"
    /\ ~args.force
    /\ ~args.confirm
    /\ outcome = "cancelled"
    /\ calls = <<Call("read", "Deployment", 0)>>
    /\ before["Deployment"] = 1
    /\ cluster["Deployment"] = 1

\* what _apply_resources issues for the documents of the request on the
\* cluster the operation started from, every call answered well
ExpectedApply ==
    ApplyResources(St(before, labelBefore), Assemble(args.type, args),
                   "click", TRUE, 0)

\* C26: the two deploy paths.  A valid request of a known type that is not
\* a dry run, on a cluster without an object of the name, ends well on
\* the command and on the endpoint alike, with the same documents, the
\* same cluster calls in the same order and the same cluster afterwards.
C26_SamePath ==
    (/\ op \in DeployOps
     /\ ~args.dry_run
     /\ ~args.gitops
     /\ args.type \in KnownTypes
     /\ ValidateDeployOptions(args.type, args.port)
     /\ \A k \in Kinds : before[k] = 0)
    => /\ outcome \in {"ok", "http201"}
       /\ resources = Assemble(args.type, args)
       /\ calls = ExpectedApply.calls
       /\ cluster = ExpectedApply.st.cluster

\* C27: whenever the missing-repo error is raised, no cluster call was
\* issued before it in that invocation and the cluster is as it was.
C27_RejectedBeforeApply ==
    (op \in {"deploy_to_cluster", "api_apply"} /\ error = RepoRequired) =>
        (calls = <<>> /\ cluster = before)

\* every poll reads the Deployment first, and the Job only after it
PollOrder ==
    /\ watch.polls > 0 => watch.calls[1] = Call("read", "Deployment", 0)
    /\ \A i \in DOMAIN watch.calls :
          watch.calls[i] = Call("read", "Job", 0) => i > 1

\* C22 as stated: the watch polls the Deployment first and then the Job,
\* sleeps 2 seconds after every poll, and no outcome of a poll ends the
\* loop: it is left on the operator's interrupt only.
C22_OnlyInterruptEnds ==
    op = "status_watch" =>
        /\ PollOrder
        /\ watch.pc \in {"poll", "sleep", "stopped"}
        /\ watch.pc = "stopped" => watch.cause = "KeyboardInterrupt"

\* C22 as amended: the watch polls the Deployment first and then the Job
\* and sleeps 2 seconds after every poll that returned; a poll that finds
\* nothing does not end the loop; the loop is left on the operator's
\* interrupt, or with exit 1 by a poll in which a read of the Deployment
\* or the Job or the listing of the pods is answered with an error status
\* other than 404, and by no other poll.
C22_WatchLoop ==
    op = "status_watch" =>
        /\ PollOrder
        /\ watch.pc \in {"poll", "sleep", "stopped", "exit1"}
        /\ watch.pc = "stopped" => watch.cause = "KeyboardInterrupt"
        /\ watch.pc = "exit1" <=> watch.last = "raised"
        /\ watch.last = "raised" <=>
              /\ watch.fault.status \notin {200, 404}
              /\ watch.fault.call \in {"Deployment", "Job", "Pods"}
              /\ watch.calls # <<>>
              /\ watch.calls[Len(watch.calls)].kind = watch.fault.call
        /\ watch.pc = "sleep" =>
              watch.slept = Interval * (watch.polls - 1)
        /\ watch.pc = "poll" => watch.slept = Interval * watch.polls

\* three polls found nothing, with 4 seconds slept between them
C22_Witness ==
    /\ op = "status_watch"
    /\ watch.pc = "sleep"
    /\ watch.polls = 3
    /\ watch.slept = 4
    /\ watch.last = "none"
    /\ watch.calls = <<Call("read", "Deployment", 0), Call("read", "Job", 0)>>

\* the items the cluster returned for the namespace of the command
ReturnedDeployments == ItemsIn(args.deployments, args.namespace)
ReturnedJobs == ItemsIn(args.jobs, args.namespace)

\* C28: the list command.  Every entry has a type of service, worker, job:
\* an entry of a Deployment has the type label of that Deployment if it is
\* service or worker and service otherwise, an entry of a Job has job;
\* with a type other than all every entry has that type; the entries are
\* in ascending order of (namespace, name); and when no listing failed,
\* every Deployment and Job returned that the type admits has its entry.
C28_ListEntries ==
    op = "list" =>
        /\ \A i \in DOMAIN listed :
              /\ listed[i].type \in {"service", "worker", "job"}
              /\ listed[i].kind = "Job" => listed[i].type = "job"
              /\ listed[i].kind = "Deployment" =>
                    \E k \in DOMAIN ReturnedDeployments :
                        /\ KeyEqual(ReturnedDeployments[k], listed[i])
                        /\ listed[i].type =
                              IF ReturnedDeployments[k].label = "worker"
                              THEN "worker" ELSE "service"
              /\ args.type # "all" => listed[i].type = args.type
        /\ \A i, j \in DOMAIN listed :
              i < j => ~KeyLess(listed[j], listed[i])
        /\ args.cut = Len(args.deployments) =>
              /\ \A k \in DOMAIN ReturnedDeployments :
                    LET t == IF ReturnedDeployments[k].label = "worker"
                             THEN "worker" ELSE "service"
                    IN  args.type \in {"all", t} =>
                           \E i \in DOMAIN listed :
                               /\ listed[i].kind = "Deployment"
                               /\ KeyEqual(listed[i], ReturnedDeployments[k])
              /\ \A k \in DOMAIN ReturnedJobs :
                    args.type \in {"all", "job"} =>
                        \E i \in DOMAIN listed :
                            /\ listed[i].kind = "Job"
                            /\ KeyEqual(listed[i], ReturnedJobs[k])

\* a Deployment with a foreign label in prod, listed by the cluster before
\* a worker in dev, and a Job: three entries, sorted, the first a worker,
\* the foreign label as service
C28_Witness ==
    /\ op = "list"
    /\ args.type = "all"
    /\ Len(args.deployments) = 2
    /\ args.deployments[1].namespace = "prod"
    /\ args.deployments[1].label = "other"
    /\ args.deployments[2].namespace = "dev"
    /\ args.deployments[2].label = "worker"
    /\ Len(listed) = 3
    /\ listed[1].namespace = "dev"
    /\ \E i \in DOMAIN listed :
          /\ listed[i].kind = "Deployment"
          /\ listed[i].namespace = "prod"
          /\ listed[i].type = "service"
    /\ \E i \in DOMAIN listed : listed[i].type = "job"

C30_RoundTrip ==
    templates.call = "get" =>
        IF /\ templates.name \in DOMAIN templates.recent
           /\ templates.recent[templates.name].call = "write"
        THEN /\ templates.status = 200
             /\ templates.content = templates.recent[templates.name].content
        ELSE templates.status = 404

====
